---- MODULE Spec2Model ----
(***************************************************************************)
(* A model of cmiles/utils.py: the backend dispatch of load_molecule, the  *)
(* RDKit and OpenEye loaders with the extension rule of _get_extension,    *)
(* the QCSchema builder mol_from_json, generate_conformers and the         *)
(* atom-map helpers is_mapped and remove_map.                              *)
(*                                                                         *)
(* Strings are sequences of one-character strings, indexed from 0 as in    *)
(* Python through At and Slice.  A coordinate is an integer number of      *)
(* 1e-9 Angstrom, so that the product with 0.529177210 is exact.  What the *)
(* external toolkits answer (does the SMILES parse, does the molecule      *)
(* sanitize, does Omega succeed) is drawn in Init as the variable toolkit. *)
(***************************************************************************)
EXTENDS Integers, Sequences, FiniteSets, TLC

VARIABLES has_rdkit, has_openeye, pc, fn, args, toolkit, result, molecule, before

vars == <<has_rdkit, has_openeye, pc, fn, args, toolkit, result, molecule, before>>

(* ------------------------------ bounds --------------------------------- *)

\* The longest symbols list of a JSON molecule.
MaxAtoms == 3
\* The longest connectivity list of a JSON molecule.
MaxBonds == 2
\* The number of pieces an input string is put together from.
MaxChunks == 4
\* The number of is_mapped / remove_map calls made on one molecule.
MaxCalls == 3

(* --------------------------- module constants --------------------------- *)

SymbolPairs ==
    {
      <<"H", 1>>, <<"He", 2>>, <<"Li", 3>>, <<"Be", 4>>, <<"B", 5>>, <<"C", 6>>,
      <<"N", 7>>, <<"O", 8>>, <<"F", 9>>, <<"Ne", 10>>, <<"Na", 11>>, <<"Mg", 12>>,
      <<"Al", 13>>, <<"Si", 14>>, <<"P", 15>>, <<"S", 16>>, <<"Cl", 17>>, <<"Ar", 18>>,
      <<"K", 19>>, <<"Ca", 20>>, <<"Sc", 21>>, <<"Ti", 22>>, <<"V", 23>>, <<"Cr", 24>>,
      <<"Mn", 25>>, <<"Fe", 26>>, <<"Co", 27>>, <<"Ni", 28>>, <<"Cu", 29>>, <<"Zn", 30>>,
      <<"Ga", 31>>, <<"Ge", 32>>, <<"As", 33>>, <<"Se", 34>>, <<"Br", 35>>, <<"Kr", 36>>,
      <<"Rb", 37>>, <<"Sr", 38>>, <<"Y", 39>>, <<"Zr", 40>>, <<"Nb", 41>>, <<"Mo", 42>>,
      <<"Tc", 43>>, <<"Ru", 44>>, <<"Rh", 45>>, <<"Pd", 46>>, <<"Ag", 47>>, <<"Cd", 48>>,
      <<"In", 49>>, <<"Sn", 50>>, <<"Sb", 51>>, <<"Te", 52>>, <<"I", 53>>, <<"Xe", 54>>,
      <<"Cs", 55>>, <<"Ba", 56>>, <<"La", 57>>, <<"Ce", 58>>, <<"Pr", 59>>, <<"Nd", 60>>,
      <<"Pm", 61>>, <<"Sm", 62>>, <<"Eu", 63>>, <<"Gd", 64>>, <<"Tb", 65>>, <<"Dy", 66>>,
      <<"Ho", 67>>, <<"Er", 68>>, <<"Tm", 69>>, <<"Yb", 70>>, <<"Lu", 71>>, <<"Hf", 72>>,
      <<"Ta", 73>>, <<"W", 74>>, <<"Re", 75>>, <<"Os", 76>>, <<"Ir", 77>>, <<"Pt", 78>>,
      <<"Au", 79>>, <<"Hg", 80>>, <<"Tl", 81>>, <<"Pb", 82>>, <<"Bi", 83>>, <<"Po", 84>>,
      <<"At", 85>>, <<"Rn", 86>>, <<"Fr", 87>>, <<"Ra", 88>>, <<"Ac", 89>>, <<"Th", 90>>,
      <<"Pa", 91>>, <<"U", 92>>, <<"Np", 93>>, <<"Pu", 94>>, <<"Am", 95>>, <<"Cm", 96>>,
      <<"Bk", 97>>, <<"Cf", 98>>, <<"Es", 99>>, <<"Fm", 100>>, <<"Md", 101>>, <<"No", 102>>,
      <<"Lr", 103>>, <<"Rf", 104>>, <<"Db", 105>>, <<"Sg", 106>>, <<"Bh", 107>>, <<"Hs", 108>>,
      <<"Mt", 109>>
    }

\* _symbols: element symbol -> atomic number.
_symbols == [s \in {p[1] : p \in SymbolPairs} |-> (CHOOSE p \in SymbolPairs : p[1] = s)[2]]

\* 0.529177210, in units of 1e-9.
BOHR_2_ANGSTROM == 529177210

(* ------------------------------ values ---------------------------------- *)

\* The shape of every molecule value.  tk is the toolkit of the object
\* ("rdkit", "openeye"), "None" for Python's None and "nothing" where no
\* value exists (the call raised).
BlankMol(tk, origin) ==
    [tk |-> tk, origin |-> origin, atoms |-> <<>>, bonds |-> <<>>, confs |-> <<>>,
     props |-> {}, stereo |-> -1, sanitized |-> FALSE]

NoMol == BlankMol("nothing", "")

PyNone == BlankMol("None", "")

Return(m, log) == [kind |-> "return", exc |-> "", mol |-> m, log |-> log]

Raise(e, log) == [kind |-> "raise", exc |-> e, mol |-> NoMol, log |-> log]

(* ------------------------------ strings --------------------------------- *)

At(p, i) == p[i + 1]

\* p[a:b]
Slice(p, a, b) == SubSeq(p, a + 1, b)

SetMax(S) == CHOOSE x \in S : \A y \in S : y <= x

\* str.rfind for a one-character needle: the last index of c in p, or -1.
rfind(p, c) ==
    LET hits == {i \in 0..(Len(p) - 1) : At(p, i) = c}
    IN  IF hits = {} THEN -1 ELSE SetMax(hits)

\* The loop of genericpath._splitext that skips the leading dots of the
\* last path component.
RECURSIVE skip_leading_dots(_, _, _)
skip_leading_dots(p, filenameIndex, dotIndex) ==
    IF filenameIndex < dotIndex
    THEN IF At(p, filenameIndex) # "."
         THEN <<Slice(p, 0, dotIndex), Slice(p, dotIndex, Len(p))>>
         ELSE skip_leading_dots(p, filenameIndex + 1, dotIndex)
    ELSE <<p, <<>>>>

\* splitext as it would be without the loop that skips leading dots: the
\* extension starts at the last dot of the last path component.
splitext_keeps_leading_dots(p) ==
    LET sepIndex == rfind(p, "/")
        dotIndex == rfind(p, ".")
    IN  IF dotIndex > sepIndex
        THEN <<Slice(p, 0, dotIndex), Slice(p, dotIndex, Len(p))>>
        ELSE <<p, <<>>>>

\* os.path.splitext on a POSIX path: <<root, ext>>.
splitext(p) ==
    LET sepIndex == rfind(p, "/")
        dotIndex == rfind(p, ".")
    IN  IF dotIndex > sepIndex
        THEN skip_leading_dots(p, sepIndex + 1, dotIndex)
        ELSE <<p, <<>>>>

GZ == <<".", "g", "z">>
PDB == <<".", "p", "d", "b">>
MOL2 == <<".", "m", "o", "l", "2">>
TPL == <<".", "t", "p", "l">>

_get_extension(filename) ==
    LET be == splitext(filename)
        base == be[1]
        extension == be[2]
    IN  IF extension = GZ
        THEN splitext(base)[2] \o extension
        ELSE extension

(* --------------------------- the RDKit loader --------------------------- *)

\* _EXT_DISPATCH_TABLE of _load_mol_rd: extension -> reader.
_EXT_DISPATCH_TABLE ==
    [e \in {PDB, MOL2, TPL} |->
        IF e = PDB THEN "MolFromPDBFile"
        ELSE IF e = MOL2 THEN "MolFromMol2File" ELSE "MolFromTPLFile"]

\* Chem.MolFromSmiles: a molecule, or None for a string it cannot parse.
MolFromSmiles(tk) ==
    IF tk.read = "mol" THEN BlankMol("rdkit", "MolFromSmiles") ELSE PyNone

_load_mol_rd(inp_molecule, openeye, tk) ==
    IF inp_molecule.kind = "str"
    THEN LET ext == _get_extension(inp_molecule.str)
         IN  IF ext = <<>>
             THEN LET m == MolFromSmiles(tk)
                  IN  IF m = PyNone
                      THEN Raise("Warning", <<"MolFromSmiles">>)
                      ELSE Return(m, <<"MolFromSmiles">>)
             ELSE IF ext \notin DOMAIN _EXT_DISPATCH_TABLE
                  THEN Raise("KeyError", <<>>)
                  ELSE LET reader == _EXT_DISPATCH_TABLE[ext]
                       IN  CASE tk.read = "mol" -> Return(BlankMol("rdkit", reader), <<reader>>)
                             [] tk.read = "None" -> Return(PyNone, <<reader>>)
                             [] OTHER -> Raise("OSError", <<reader>>)
    ELSE IF inp_molecule.kind = "rdmol"
    THEN Return(BlankMol("rdkit", "deepcopy"), <<"deepcopy">>)
    ELSE IF openeye /\ inp_molecule.kind = "oemol"
    THEN Return(MolFromSmiles(tk), <<"OEMolToSmiles", "MolFromSmiles">>)
    ELSE Raise("UnboundLocalError", <<>>)

(* -------------------------- the OpenEye loader -------------------------- *)

_load_mol_oe(inp_molecule, rdkit, tk) ==
    IF inp_molecule.kind = "str"
    THEN LET ext == _get_extension(inp_molecule.str)
         IN  IF ext = <<>>
             THEN IF tk.read = "mol"
                  THEN Return(BlankMol("openeye", "OEParseSmiles"), <<"OEParseSmiles">>)
                  ELSE Raise("Warning", <<"OEParseSmiles">>)
             ELSE CASE tk.read = "mol" -> Return(BlankMol("openeye", "oemolistream"), <<"oemolistream">>)
                    [] tk.read = "None" -> Return(BlankMol("openeye", "OEMol"), <<"oemolistream">>)
                    [] OTHER -> Raise("Warning", <<"oemolistream">>)
    ELSE IF inp_molecule.kind = "oemol"
    THEN Return(BlankMol("openeye", "deepcopy"), <<"deepcopy">>)
    ELSE IF rdkit /\ inp_molecule.kind = "rdmol"
    THEN Return(BlankMol("openeye", "OESmilesToMol"), <<"MolToSmiles", "OESmilesToMol">>)
    ELSE Return(BlankMol("openeye", "OEMol"), <<>>)

(* ----------------------------- mol_from_json ---------------------------- *)

\* The bond table with the entries for 2 and 3 exchanged.
_BO_DISPATCH_TABLE_exchanged ==
    [o \in {1, 2, 3} |-> IF o = 1 THEN "SINGLE" ELSE IF o = 2 THEN "TRIPLE" ELSE "DOUBLE"]

\* _BO_DISPATCH_TABLE of mol_from_json: bond order -> Chem.BondType.
_BO_DISPATCH_TABLE ==
    [o \in {1, 2, 3} |-> IF o = 1 THEN "SINGLE" ELSE IF o = 2 THEN "DOUBLE" ELSE "TRIPLE"]

\* The reshape in column-major order (order='F'): row r holds the r-th,
\* the (rows + r)-th and the (2 rows + r)-th number.
reshape_geometry_by_columns(g) ==
    LET rows == Len(g) \div 3
    IN  IF rows * 3 # Len(g)
        THEN [exc |-> "ValueError", rows |-> <<>>]
        ELSE [exc |-> "",
              rows |-> [r \in 1..rows |->
                          <<g[r] * BOHR_2_ANGSTROM,
                            g[rows + r] * BOHR_2_ANGSTROM,
                            g[2 * rows + r] * BOHR_2_ANGSTROM>>]]

\* np.array(g, dtype=float).reshape(int(len(g)/3), 3) * BOHR_2_ANGSTROM:
\* the rows of the array, or "ValueError" when the reshape is refused.
reshape_geometry(g) ==
    LET rows == Len(g) \div 3
    IN  IF rows * 3 # Len(g)
        THEN [exc |-> "ValueError", rows |-> <<>>]
        ELSE [exc |-> "",
              rows |-> [r \in 1..rows |->
                          <<g[3 * (r - 1) + 1] * BOHR_2_ANGSTROM,
                            g[3 * (r - 1) + 2] * BOHR_2_ANGSTROM,
                            g[3 * (r - 1) + 3] * BOHR_2_ANGSTROM>>]]

\* Chem.Conformer(n): n positions at the origin.
Conformer(n) == [i \in 1..n |-> <<0, 0, 0>>]

\* Conformer.SetAtomPosition(atom, position); atom is a 0-based index.
SetAtomPosition(conformer, atom, position) ==
    [i \in 1..(IF atom + 1 > Len(conformer) THEN atom + 1 ELSE Len(conformer)) |->
        IF i = atom + 1 THEN position
        ELSE IF i <= Len(conformer) THEN conformer[i] ELSE <<0, 0, 0>>]

\* The loop over enumerate(symbols), from index i on: em is the list of
\* atomic numbers of the RWMol so far, AddAtom returns the new atom's index.
RECURSIVE add_atoms(_, _, _, _, _, _)
add_atoms(symbols, i, has_geometry, geometry, em, conformer) ==
    IF i >= Len(symbols)
    THEN [exc |-> "", em |-> em, conformer |-> conformer]
    ELSE LET s == At(symbols, i)
         IN  IF s \notin DOMAIN _symbols
             THEN [exc |-> "KeyError", em |-> em, conformer |-> conformer]
             ELSE LET atom == Len(em)
                      em2 == Append(em, _symbols[s])
                  IN  IF has_geometry
                      THEN IF i >= Len(geometry)
                           THEN [exc |-> "IndexError", em |-> em2, conformer |-> conformer]
                           ELSE add_atoms(symbols, i + 1, has_geometry, geometry, em2,
                                          SetAtomPosition(conformer, atom, At(geometry, i)))
                      ELSE add_atoms(symbols, i + 1, has_geometry, geometry, em2, conformer)

\* RWMol.AddBond(a, b, type) on a molecule of natoms atoms with the bonds
\* given: the toolkit refuses an index that is no atom, a bond from an atom
\* to itself and a second bond between the same two atoms.
AddBond(natoms, bonds, a, b, bond_type) ==
    IF a \notin 0..(natoms - 1) \/ b \notin 0..(natoms - 1)
    THEN [exc |-> "IndexError", bonds |-> bonds]
    ELSE IF a = b \/ \E k \in 1..Len(bonds) : {bonds[k][1], bonds[k][2]} = {a, b}
    THEN [exc |-> "RuntimeError", bonds |-> bonds]
    ELSE [exc |-> "", bonds |-> Append(bonds, <<a, b, bond_type>>)]

\* The loop over connectivity, from entry k (1-based) on.
RECURSIVE add_bonds(_, _, _, _)
add_bonds(connectivity, k, natoms, bonds) ==
    IF k > Len(connectivity)
    THEN [exc |-> "", bonds |-> bonds]
    ELSE LET bond == connectivity[k]
             last == bond[Len(bond)]
         IN  IF last \notin DOMAIN _BO_DISPATCH_TABLE
             THEN [exc |-> "KeyError", bonds |-> bonds]
             ELSE LET added == AddBond(natoms, bonds, bond[1], bond[2], _BO_DISPATCH_TABLE[last])
                  IN  IF added.exc # ""
                      THEN added
                      ELSE add_bonds(connectivity, k + 1, natoms, added.bonds)

\* The end of mol_from_json with the conformer attached and the tag set
\* before the molecule is sanitized.
finish_molecule_conformer_first(em, bonds, has_geometry, conformer, tk) ==
    LET built == [BlankMol("rdkit", "mol_from_json") EXCEPT !.atoms = em, !.bonds = bonds]
        attached == IF has_geometry
                    THEN [built EXCEPT !.confs = Append(built.confs, conformer),
                                       !.stereo = Len(built.confs),
                                       !.props = built.props \cup {<<"_json_geometry", "1">>}]
                    ELSE built
        log == (IF has_geometry
                THEN <<"AddConformer", "AssignStereochemistryFrom3D", "SetProp">>
                ELSE <<>>) \o <<"SanitizeMol">>
    IN  IF ~tk.sanitize
        THEN Raise("RuntimeError", log)
        ELSE Return([attached EXCEPT !.sanitized = TRUE], log)

\* The part of mol_from_json after em.GetMol(): sanitize, then attach the
\* conformer, assign the stereochemistry from it and tag the molecule.
finish_molecule(em, bonds, has_geometry, conformer, tk) ==
    LET built == [BlankMol("rdkit", "mol_from_json") EXCEPT !.atoms = em, !.bonds = bonds]
    IN  IF ~tk.sanitize
        THEN Raise("RuntimeError", <<"SanitizeMol">>)
        ELSE LET clean == [built EXCEPT !.sanitized = TRUE]
             IN  IF has_geometry
                 THEN LET initial_conformer_id == Len(clean.confs)
                      IN  Return([clean EXCEPT !.confs = Append(clean.confs, conformer),
                                               !.stereo = initial_conformer_id,
                                               !.props = clean.props \cup {<<"_json_geometry", "1">>}],
                                 <<"SanitizeMol", "AddConformer",
                                   "AssignStereochemistryFrom3D", "SetProp">>)
                 ELSE Return(clean, <<"SanitizeMol">>)

mol_from_json(inp_molecule, rdkit, tk) ==
    IF ~rdkit THEN Raise("RuntimeError", <<>>)
    ELSE IF "symbols" \notin inp_molecule.keys THEN Raise("KeyError", <<>>)
    ELSE IF "connectivity" \notin inp_molecule.keys THEN Raise("KeyError", <<>>)
    ELSE
    LET symbols == inp_molecule.symbols
        connectivity == inp_molecule.connectivity
        has_geometry == "geometry" \in inp_molecule.keys
        shaped == IF has_geometry THEN reshape_geometry(inp_molecule.geometry)
                  ELSE [exc |-> "", rows |-> <<>>]
    IN  IF shaped.exc # "" THEN Raise(shaped.exc, <<>>)
        ELSE
        LET conformer == IF has_geometry THEN Conformer(Len(symbols)) ELSE <<>>
            atoms == add_atoms(symbols, 0, has_geometry, shaped.rows, <<>>, conformer)
        IN  IF atoms.exc # "" THEN Raise(atoms.exc, <<>>)
            ELSE
            LET bonded == add_bonds(connectivity, 1, Len(atoms.em), <<>>)
            IN  IF bonded.exc # "" THEN Raise(bonded.exc, <<>>)
                ELSE finish_molecule(atoms.em, bonded.bonds, has_geometry, atoms.conformer, tk)

(* ----------------------------- load_molecule ---------------------------- *)

\* Adds the callee to the front of the log of what it did.
Called(callee, outcome) == [outcome EXCEPT !.log = <<callee>> \o outcome.log]

\* load_molecule with the backend looked at before the type of the input.
load_molecule_backend_first(inp_molecule, backend, rdkit, openeye, tk) ==
    IF backend = "rdkit"
    THEN IF ~rdkit
         THEN Raise("RuntimeError", <<>>)
         ELSE IF inp_molecule.kind = "dict"
              THEN Called("mol_from_json", mol_from_json(inp_molecule.json, rdkit, tk))
              ELSE Called("_load_mol_rd", _load_mol_rd(inp_molecule, openeye, tk))
    ELSE IF backend = "openeye"
    THEN IF ~openeye
         THEN Raise("RuntimeError", <<>>)
         ELSE IF inp_molecule.kind = "dict"
              THEN Called("mol_from_json", mol_from_json(inp_molecule.json, rdkit, tk))
              ELSE Called("_load_mol_oe", _load_mol_oe(inp_molecule, rdkit, tk))
    ELSE Raise("RuntimeError", <<>>)

load_molecule(inp_molecule, backend, rdkit, openeye, tk) ==
    IF inp_molecule.kind = "dict"
    THEN Called("mol_from_json", mol_from_json(inp_molecule.json, rdkit, tk))
    ELSE IF backend = "rdkit"
    THEN IF ~rdkit
         THEN Raise("RuntimeError", <<>>)
         ELSE Called("_load_mol_rd", _load_mol_rd(inp_molecule, openeye, tk))
    ELSE IF backend = "openeye"
    THEN IF ~openeye
         THEN Raise("RuntimeError", <<>>)
         ELSE Called("_load_mol_oe", _load_mol_oe(inp_molecule, rdkit, tk))
    ELSE Raise("RuntimeError", <<>>)

\* def load_molecule(inp_molecule, backend='openeye')
DefaultBackend == "openeye"

(* --------------------------- generate_conformers ------------------------ *)

\* Python values handed to the Omega setters: a type tag and a number
\* (a bool as 0 or 1, a float in tenths).
PyNoneArg == [ty |-> "NoneType", v |-> 0]
PyInt(n) == [ty |-> "int", v |-> n]
PyBool(b) == [ty |-> "bool", v |-> IF b THEN 1 ELSE 0]
PyFloat(tenths) == [ty |-> "float", v |-> tenths]

OmegaCall(op, arg) == [op |-> op, arg |-> arg]

\* The setter calls of generate_conformers up to the run of Omega, in order.
omega_setup(a) ==
    <<OmegaCall("SetMaxConfs", a.max_confs),
      OmegaCall("SetIncludeInput", PyBool(TRUE)),
      OmegaCall("SetCanonOrder", PyBool(a.canon_order)),
      OmegaCall("SetSampleHydrogens", PyBool(TRUE)),
      OmegaCall("SetEnergyWindow", a.ewindow),
      OmegaCall("SetRMSThreshold", a.rms_threshold),
      OmegaCall("SetStrictStereo", PyBool(a.strict_stereo)),
      OmegaCall("SetStrictAtomTypes", PyBool(a.strict_types)),
      OmegaCall("SetIncludeInput", PyBool(FALSE))>>
    \o (IF a.max_confs # PyNoneArg
        THEN <<OmegaCall("SetMaxConfs", a.max_confs)>>
        ELSE <<>>)

\* The outcome of generate_conformers and the calls made on the OEOmega
\* object.  Whether the toolkit's SetMaxConfs accepts None is the toolkit's
\* (tk.none_ok); when it does not, the first call raises TypeError.
generate_conformers(a, openeye, tk) ==
    IF ~openeye
    THEN [kind |-> "raise", exc |-> "Warning", copied |-> FALSE, calls |-> <<>>]
    ELSE IF a.max_confs = PyNoneArg /\ ~tk.none_ok
    THEN [kind |-> "raise", exc |-> "TypeError", copied |-> a.copy,
          calls |-> <<OmegaCall("SetMaxConfs", a.max_confs)>>]
    ELSE LET calls == Append(omega_setup(a), OmegaCall("run", PyNoneArg))
         IN  IF ~tk.omega
             THEN [kind |-> "raise", exc |-> "RuntimeError", copied |-> a.copy, calls |-> calls]
             ELSE [kind |-> "return", exc |-> "", copied |-> a.copy, calls |-> calls]

(* ------------------------- is_mapped, remove_map ------------------------ *)

\* The two isinstance tests that open is_mapped and remove_map: the name
\* Chem is bound only when RDKit was imported, oechem only when OpenEye was.
backend_of(mol, rdkit, openeye) ==
    IF ~rdkit THEN "NameError"
    ELSE IF ~openeye THEN "NameError"
    ELSE IF mol.tk = "openeye" THEN "openeye"
    ELSE IF mol.tk = "rdkit" THEN "rdkit"
    ELSE "unbound"

\* The loop of is_mapped from atom i (1-based) on.
RECURSIVE is_mapped_loop(_, _, _)
is_mapped_loop(maps, i, IS_MAPPED) ==
    IF i > Len(maps) THEN IS_MAPPED
    ELSE is_mapped_loop(maps, i + 1, IF maps[i] = 0 THEN FALSE ELSE IS_MAPPED)

is_mapped(mol, rdkit, openeye) ==
    LET backend == backend_of(mol, rdkit, openeye)
    IN  IF backend = "NameError"
        THEN [kind |-> "raise", exc |-> "NameError", value |-> FALSE]
        ELSE IF backend = "unbound" /\ Len(mol.maps) > 0
        THEN [kind |-> "raise", exc |-> "UnboundLocalError", value |-> FALSE]
        ELSE [kind |-> "return", exc |-> "", value |-> is_mapped_loop(mol.maps, 1, TRUE)]

\* The loop of remove_map from atom i (1-based) on.
RECURSIVE remove_map_loop(_, _)
remove_map_loop(maps, i) ==
    IF i > Len(maps) THEN maps
    ELSE remove_map_loop([maps EXCEPT ![i] = 0], i + 1)

\* The outcome of remove_map and the molecule it leaves.
remove_map(mol, rdkit, openeye) ==
    LET backend == backend_of(mol, rdkit, openeye)
    IN  IF backend = "NameError"
        THEN [kind |-> "raise", exc |-> "NameError", mol |-> mol]
        ELSE IF backend = "unbound" /\ Len(mol.maps) > 0
        THEN [kind |-> "raise", exc |-> "UnboundLocalError", mol |-> mol]
        ELSE [kind |-> "return", exc |-> "",
              mol |-> [mol EXCEPT !.maps = remove_map_loop(mol.maps, 1)]]

(* ------------------------------- inputs --------------------------------- *)

\* What the toolkits answer: read is what a parser or file reader makes of
\* its input ("mol": a molecule, "None": no molecule, "error": the file
\* cannot be opened; a SMILES parser answers None there), sanitize whether
\* Chem.SanitizeMol accepts the molecule, omega whether Omega reports
\* success, none_ok whether OEOmega.SetMaxConfs accepts None.
Toolkits ==
    [read : {"mol", "None", "error"}, sanitize : BOOLEAN, omega : BOOLEAN, none_ok : BOOLEAN]

PlainToolkit == [read |-> "mol", sanitize |-> TRUE, omega |-> TRUE, none_ok |-> TRUE]

EmptyJson == [keys |-> {}, symbols |-> <<>>, connectivity |-> <<>>, geometry |-> <<>>]

StrInput(s) == [kind |-> "str", str |-> s, json |-> EmptyJson]
ObjInput(kind) == [kind |-> kind, str |-> <<>>, json |-> EmptyJson]
DictInput(j) == [kind |-> "dict", str |-> <<>>, json |-> j]

NoMolecule == [tk |-> "nothing", atoms |-> <<>>, maps |-> <<>>]

\* The pieces input strings are put together from.
Chunks == {<<"C">>, <<"/">>, <<".">>, PDB, MOL2, TPL, GZ}

RECURSIVE Strings(_)
Strings(n) ==
    IF n = 0 THEN {<<>>}
    ELSE LET S == Strings(n - 1) IN S \cup {s \o c : s \in S, c \in Chunks}

\* The SMILES of sodium chloride, '[Na+].[Cl-]'.
NaCl == <<"[", "N", "a", "+", "]", ".", "[", "C", "l", "-", "]">>

InputStrings == Strings(MaxChunks) \cup {NaCl}

\* "Xx" is no element of _symbols.
SymbolPool == {"C", "O", "Xx"}

SymbolSeqs == UNION {[1..n -> SymbolPool] : n \in 0..MaxAtoms}

\* Flat geometries of every length up to one atom more than MaxAtoms, with
\* coordinates in -4..4 that differ from one place to the next.
Geometry(len, shift, stride) == [k \in 1..len |-> ((stride * k + shift) % 9) - 4]

GeometryPool ==
    {Geometry(len, shift, stride) : len \in 0..(3 * MaxAtoms + 3), shift \in {0, 4}, stride \in {1, 2}}

\* Connectivity entries (a, b, order): atoms in and out of range, a bond
\* from an atom to itself, and 4, which is no key of _BO_DISPATCH_TABLE.
BondPool ==
    {<<p[1], p[2], o>> :
        p \in {<<0, 1>>, <<1, 0>>, <<0, 2>>, <<1, 2>>, <<1, 1>>, <<2, 3>>}, o \in 1..4}

BondSeqs == UNION {[1..n -> BondPool] : n \in 0..MaxBonds}

JsonKeys == {"symbols", "connectivity", "geometry"}

\* JSON molecules that vary the keys, the symbols and the geometry.
JsonByGeometry ==
    {[keys |-> ks, symbols |-> s, connectivity |-> c, geometry |-> g] :
        ks \in SUBSET JsonKeys,
        s \in SymbolSeqs,
        c \in {<<>>, <<<<0, 1, 1>>>>},
        g \in GeometryPool}

\* JSON molecules that vary the connectivity, with and without a geometry
\* of the right length.
JsonByBonds ==
    {[keys |-> ks, symbols |-> [i \in 1..n |-> IF i % 2 = 1 THEN "C" ELSE "O"],
      connectivity |-> c, geometry |-> Geometry(3 * n, 0, 1)] :
        ks \in {{"symbols", "connectivity"}, JsonKeys},
        n \in 0..MaxAtoms,
        c \in BondSeqs}

\* A key that is absent has no value.
Normal(j) ==
    [keys |-> j.keys,
     symbols |-> IF "symbols" \in j.keys THEN j.symbols ELSE <<>>,
     connectivity |-> IF "connectivity" \in j.keys THEN j.connectivity ELSE <<>>,
     geometry |-> IF "geometry" \in j.keys THEN j.geometry ELSE <<>>]

JsonInputs == {Normal(j) : j \in JsonByGeometry \cup JsonByBonds}

\* A few inputs of each kind, for the dispatch of load_molecule.
SampleJson ==
    {[keys |-> ks, symbols |-> <<"C", "O">>, connectivity |-> <<<<0, 1, 2>>>>,
      geometry |-> Geometry(6, 0, 1)] : ks \in SUBSET JsonKeys}

SampleInputs ==
    {StrInput(<<"C", "C">>), StrInput(<<"C">> \o PDB), StrInput(<<"C">> \o PDB \o GZ),
     ObjInput("rdmol"), ObjInput("oemol"), ObjInput("other")}
    \cup {DictInput(Normal(j)) : j \in SampleJson}

Backends == {"rdkit", "openeye", "psi4"}

\* An object of a toolkit exists only where the toolkit is installed.
Exists(inp, rdkit, openeye) ==
    /\ inp.kind = "rdmol" => rdkit
    /\ inp.kind = "oemol" => openeye

MapSeqs == UNION {[1..n -> {0, 1, 2}] : n \in 0..MaxAtoms}

(* ------------------------------- Init ----------------------------------- *)

Idle ==
    /\ pc = "ready"
    /\ result = Raise("", <<>>)
    /\ molecule = NoMolecule
    /\ before = NoMolecule

\* load_molecule on a few inputs of every kind, with and without the
\* backend argument, under every installation.
InitDispatch ==
    /\ has_rdkit \in BOOLEAN
    /\ has_openeye \in BOOLEAN
    /\ fn = "load_molecule"
    /\ toolkit \in {t \in Toolkits : t.omega /\ t.none_ok}
    /\ args \in {[inp_molecule |-> i, backend |-> b, backend_given |-> g] :
                    i \in SampleInputs, b \in Backends, g \in BOOLEAN}
    /\ args.backend_given \/ args.backend = DefaultBackend
    /\ Exists(args.inp_molecule, has_rdkit, has_openeye)
    /\ Idle

\* load_molecule on every input string, with both toolkits installed.
InitStrings ==
    /\ has_rdkit = TRUE
    /\ has_openeye \in BOOLEAN
    /\ fn = "load_molecule"
    /\ toolkit \in {t \in Toolkits : t.omega /\ t.none_ok /\ t.sanitize}
    /\ args \in {[inp_molecule |-> StrInput(s), backend |-> b, backend_given |-> TRUE] :
                    s \in InputStrings, b \in {"rdkit", "openeye"}}
    /\ args.backend = "openeye" => has_openeye
    /\ Idle

\* mol_from_json on every JSON molecule.
InitJson ==
    /\ has_rdkit \in BOOLEAN
    /\ has_openeye = FALSE
    /\ fn = "mol_from_json"
    /\ toolkit \in {t \in Toolkits : t.omega /\ t.none_ok /\ t.read = "mol"}
    /\ args \in {[inp_molecule |-> j] : j \in JsonInputs}
    /\ Idle

\* generate_conformers with every choice of its arguments.
InitOmega ==
    /\ has_rdkit = FALSE
    /\ has_openeye \in BOOLEAN
    /\ fn = "generate_conformers"
    /\ toolkit \in {t \in Toolkits : t.sanitize /\ t.read = "mol"}
    /\ args \in [max_confs : {PyNoneArg, PyInt(1), PyInt(800)},
                 strict_stereo : BOOLEAN,
                 ewindow : {PyFloat(150)},
                 rms_threshold : {PyFloat(10)},
                 strict_types : BOOLEAN,
                 copy : BOOLEAN,
                 canon_order : BOOLEAN]
    /\ Idle

\* A molecule of either toolkit with every choice of atom-map indices.
InitMaps ==
    /\ has_rdkit \in BOOLEAN
    /\ has_openeye \in BOOLEAN
    /\ fn = "atom_map"
    /\ toolkit = PlainToolkit
    /\ args = [calls |-> 0, last |-> ""]
    /\ pc = "ready"
    /\ result = [kind |-> "", exc |-> "", value |-> FALSE]
    /\ molecule \in {[tk |-> t, atoms |-> [i \in 1..Len(m) |-> 5 + i], maps |-> m] :
                        t \in {"rdkit", "openeye"}, m \in MapSeqs}
    /\ molecule.tk = "rdkit" => has_rdkit
    /\ molecule.tk = "openeye" => has_openeye
    /\ before = molecule

Init == InitDispatch \/ InitStrings \/ InitJson \/ InitOmega \/ InitMaps

(* ------------------------------ actions --------------------------------- *)

CallLoadMolecule ==
    /\ pc = "ready"
    /\ fn = "load_molecule"
    /\ result' = load_molecule(args.inp_molecule,
                               IF args.backend_given THEN args.backend ELSE DefaultBackend,
                               has_rdkit, has_openeye, toolkit)
    /\ pc' = "done"
    /\ UNCHANGED <<has_rdkit, has_openeye, fn, args, toolkit, molecule, before>>

CallMolFromJson ==
    /\ pc = "ready"
    /\ fn = "mol_from_json"
    /\ result' = mol_from_json(args.inp_molecule, has_rdkit, toolkit)
    /\ pc' = "done"
    /\ UNCHANGED <<has_rdkit, has_openeye, fn, args, toolkit, molecule, before>>

CallGenerateConformers ==
    /\ pc = "ready"
    /\ fn = "generate_conformers"
    /\ result' = generate_conformers(args, has_openeye, toolkit)
    /\ pc' = "done"
    /\ UNCHANGED <<has_rdkit, has_openeye, fn, args, toolkit, molecule, before>>

CallIsMapped ==
    /\ fn = "atom_map"
    /\ args.calls < MaxCalls
    /\ result' = is_mapped(molecule, has_rdkit, has_openeye)
    /\ before' = molecule
    /\ args' = [calls |-> args.calls + 1, last |-> "is_mapped"]
    /\ pc' = "done"
    /\ UNCHANGED <<has_rdkit, has_openeye, fn, toolkit, molecule>>

CallRemoveMap ==
    /\ fn = "atom_map"
    /\ args.calls < MaxCalls
    /\ LET r == remove_map(molecule, has_rdkit, has_openeye)
       IN  /\ result' = [kind |-> r.kind, exc |-> r.exc, value |-> FALSE]
           /\ molecule' = r.mol
    /\ before' = molecule
    /\ args' = [calls |-> args.calls + 1, last |-> "remove_map"]
    /\ pc' = "done"
    /\ UNCHANGED <<has_rdkit, has_openeye, fn, toolkit>>

Next ==
    \/ CallLoadMolecule
    \/ CallMolFromJson
    \/ CallGenerateConformers
    \/ CallIsMapped
    \/ CallRemoveMap

Spec == Init /\ [][Next]_vars

(* ------------------------------ properties ------------------------------ *)

Loaded == fn = "load_molecule" /\ pc = "done"

Built == fn = "mol_from_json" /\ pc = "done"

\* The backend a call of load_molecule runs with.
UsedBackend == IF args.backend_given THEN args.backend ELSE DefaultBackend

InLog(name) == \E k \in 1..Len(result.log) : result.log[k] = name

TimesInLog(name) == Cardinality({k \in 1..Len(result.log) : result.log[k] = name})

C2_DefaultFallsBackToRDKit ==
    (Loaded /\ ~args.backend_given /\ args.inp_molecule.kind # "dict") =>
        /\ (has_openeye /\ result.kind = "return") => result.mol.tk = "openeye"
        /\ (~has_openeye /\ has_rdkit) =>
              LET rd == _load_mol_rd(args.inp_molecule, has_openeye, toolkit)
              IN  (rd.kind = "return" /\ rd.mol.tk = "rdkit") =>
                      (result.kind = "return" /\ result.mol.tk = "rdkit")

\* The JSON molecule of a call of load_molecule or of mol_from_json.
JsonOfCall ==
    IF fn = "load_molecule" THEN args.inp_molecule.json ELSE args.inp_molecule

JsonCallDone ==
    /\ pc = "done"
    /\ \/ fn = "mol_from_json"
       \/ fn = "load_molecule" /\ args.inp_molecule.kind = "dict"

KnownSymbols(j) == \A i \in 1..Len(j.symbols) : j.symbols[i] \in {"C", "O"}

\* Every entry joins two different atoms of the molecule with an order of
\* 1, 2 or 3, and no two entries join the same pair.
SoundConnectivity(j) ==
    /\ \A k \in 1..Len(j.connectivity) :
          LET e == j.connectivity[k]
          IN  /\ e[1] \in 0..(Len(j.symbols) - 1)
              /\ e[2] \in 0..(Len(j.symbols) - 1)
              /\ e[1] # e[2]
              /\ e[3] \in {1, 2, 3}
    /\ \A k, l \in 1..Len(j.connectivity) :
          k # l => {j.connectivity[k][1], j.connectivity[k][2]}
                      # {j.connectivity[l][1], j.connectivity[l][2]}

\* C3: the minimum fields of a JSON molecule are symbols and geometry, or
\* symbols and connectivity: a dict with symbols and a geometry and no
\* connectivity is built and returned, as one with symbols and connectivity
\* and no geometry is.
C3_GeometryOrConnectivity ==
    (JsonCallDone /\ has_rdkit /\ toolkit.sanitize /\ KnownSymbols(JsonOfCall)) =>
        LET j == JsonOfCall
        IN  /\ (j.keys = {"symbols", "geometry"} /\ Len(j.geometry) = 3 * Len(j.symbols)) =>
                (result.kind = "return" /\ result.mol.tk = "rdkit")
            /\ (j.keys = {"symbols", "connectivity"} /\ SoundConnectivity(j)) =>
                (result.kind = "return" /\ result.mol.tk = "rdkit")

\* C4: mol_from_json either succeeds or raises.  A call ends with a
\* returned molecule that has passed sanitization, or with an exception and
\* no molecule.  The molecule is sanitized at most once, and a failure of
\* the sanitization is reported as RuntimeError, with no conformer added
\* and no '_json_geometry' tag set.
C4_SucceedsOrRaises ==
    Built =>
        /\ result.kind \in {"return", "raise"}
        /\ result.kind = "return" =>
              /\ result.exc = ""
              /\ result.mol.tk = "rdkit"
              /\ result.mol.sanitized
              /\ TimesInLog("SanitizeMol") = 1
        /\ result.kind = "raise" =>
              /\ result.exc # ""
              /\ result.mol = NoMol
        /\ TimesInLog("SanitizeMol") <= 1
        /\ (InLog("SanitizeMol") /\ ~toolkit.sanitize) =>
              /\ result.kind = "raise"
              /\ result.exc = "RuntimeError"
              /\ ~InLog("AddConformer")
              /\ ~InLog("SetProp")

\* The sanitization of a molecule that came with a geometry failed.
C4_Witness ==
    /\ Built
    /\ "geometry" \in args.inp_molecule.keys
    /\ InLog("SanitizeMol")
    /\ ~toolkit.sanitize
    /\ result.exc = "RuntimeError"

\* The setter calls a call of generate_conformers made, as a set of places.
OmegaCalls == 1..Len(result.calls)

\* C5: when max_confs is None the generator keeps its default maximum:
\* SetMaxConfs is never called with None, and it is called with max_confs
\* only when max_confs is not None.  The last SetIncludeInput before the
\* generator is run sets False.
C5_MaxConfsNoneKeepsDefault ==
    (fn = "generate_conformers" /\ pc = "done") =>
        /\ \A k \in OmegaCalls :
              result.calls[k].op = "SetMaxConfs" =>
                  /\ result.calls[k].arg # PyNoneArg
                  /\ result.calls[k].arg = args.max_confs
        /\ \A r \in OmegaCalls :
              result.calls[r].op = "run" =>
                  \E k \in 1..(r - 1) :
                      /\ result.calls[k] = OmegaCall("SetIncludeInput", PyBool(FALSE))
                      /\ \A l \in (k + 1)..(r - 1) : result.calls[l].op # "SetIncludeInput"

\* The atomic numbers of the symbols the inputs are made of.
AtomicNumber(s) == IF s = "C" THEN 6 ELSE IF s = "O" THEN 8 ELSE 0

BondTypeOf(order) ==
    IF order = 1 THEN "SINGLE" ELSE IF order = 2 THEN "DOUBLE" ELSE "TRIPLE"

C7_GeometryAttachedAndTagged ==
    (Built /\ result.kind = "return") =>
        LET j == args.inp_molecule
            m == result.mol
        IN  IF "geometry" \in j.keys
            THEN /\ Len(m.confs) = 1
                 /\ Len(m.confs[1]) = Len(j.symbols)
                 /\ \A i \in 0..(Len(j.symbols) - 1) :
                       m.confs[1][i + 1] = <<j.geometry[3 * i + 1] * BOHR_2_ANGSTROM,
                                             j.geometry[3 * i + 2] * BOHR_2_ANGSTROM,
                                             j.geometry[3 * i + 3] * BOHR_2_ANGSTROM>>
                 /\ m.stereo = 0
                 /\ InLog("AssignStereochemistryFrom3D")
                 /\ \A pr \in m.props : pr[1] = "_json_geometry" => pr[2] = "1"
                 /\ <<"_json_geometry", "1">> \in m.props
            ELSE /\ m.confs = <<>>
                 /\ m.stereo = -1
                 /\ ~InLog("AddConformer")
                 /\ \A pr \in m.props : pr[1] # "_json_geometry"

\* A molecule of two atoms came back with its geometry attached.
C7_Witness ==
    /\ Built
    /\ result.kind = "return"
    /\ "geometry" \in args.inp_molecule.keys
    /\ Len(args.inp_molecule.symbols) = 2
    /\ Len(result.mol.confs) = 1
    /\ result.mol.confs[1][1] # result.mol.confs[1][2]

\* A call of load_molecule that reached the RDKit loader with a string.
RdString ==
    /\ Loaded
    /\ has_rdkit
    /\ UsedBackend = "rdkit"
    /\ args.inp_molecule.kind = "str"

Readers == {"MolFromPDBFile", "MolFromMol2File", "MolFromTPLFile"}

ReaderOf(ext) ==
    IF ext = PDB THEN "MolFromPDBFile"
    ELSE IF ext = MOL2 THEN "MolFromMol2File" ELSE "MolFromTPLFile"

EndsWith(s, suffix) ==
    Len(s) >= Len(suffix) /\ SubSeq(s, Len(s) - Len(suffix) + 1, Len(s)) = suffix

DropLast(s, n) == SubSeq(s, 1, Len(s) - n)

\* The places (1-based) of the last path component of s.
LastComponent(s) == {i \in 1..Len(s) : \A k \in i..Len(s) : s[k] # "/"}

\* The text from the last '.' of the last path component, or nothing.
FromLastDot(s) ==
    LET dots == {i \in LastComponent(s) : s[i] = "."}
    IN  IF dots = {} THEN <<>> ELSE SubSeq(s, SetMax(dots), Len(s))

\* The same, where a '.' starts an extension only if the component has a
\* character other than '.' before it.
FromLastDotAfterName(s) ==
    LET dots == {i \in LastComponent(s) : s[i] = "."}
    IN  IF dots # {} /\ \E i \in LastComponent(s) : i < SetMax(dots) /\ s[i] # "."
        THEN SubSeq(s, SetMax(dots), Len(s))
        ELSE <<>>

\* What the loader does with a string of extension ext.
DispatchedOn(ext) ==
    /\ ext = <<>> =>
          /\ result.log = <<"_load_mol_rd", "MolFromSmiles">>
          /\ toolkit.read # "mol" => result.kind = "raise"
          /\ toolkit.read = "mol" => (result.kind = "return" /\ result.mol.origin = "MolFromSmiles")
    /\ ext \in {PDB, MOL2, TPL} =>
          /\ result.log = <<"_load_mol_rd", ReaderOf(ext)>>
          /\ result.kind = "return" => result.mol.origin \in {ReaderOf(ext), ""}
    /\ (ext # <<>> /\ ext \notin {PDB, MOL2, TPL}) =>
          result = Raise("KeyError", <<"_load_mol_rd">>)

\* C8 as stated: the loader dispatches on the extension, which is the text
\* from the last '.' of the name, joined with the extension before it for
\* a name ending in '.gz'; no name ending in '.gz' reaches a file reader;
\* and every string with a '.' in its last path component is taken for a
\* file name, not for SMILES.
C8_AnyDotIsAnExtension ==
    RdString =>
        LET s == args.inp_molecule.str
            ext == IF FromLastDot(s) = GZ
                   THEN FromLastDot(DropLast(s, 3)) \o GZ
                   ELSE FromLastDot(s)
        IN  /\ DispatchedOn(ext)
            /\ EndsWith(s, GZ) => \A r \in Readers : ~InLog(r)
            /\ (\E i \in LastComponent(s) : s[i] = ".") => ~InLog("MolFromSmiles")

\* C8, amended: the extension is the text from the last '.' of the last
\* path component provided a character other than '.' comes before it in
\* that component (leading dots start no extension), joined with the
\* extension before it for a name whose extension is '.gz'.  A string with
\* no extension is parsed as SMILES and raises if that yields no molecule;
\* '.pdb', '.mol2' and '.tpl' go to the matching file reader; every other
\* extension raises KeyError.  No name ending in '.gz' reaches a file
\* reader, and every string with such a '.', '[Na+].[Cl-]' among them, is
\* taken for a file name and not for SMILES.
C8_DotAfterNameIsAnExtension ==
    RdString =>
        LET s == args.inp_molecule.str
            ext == IF FromLastDotAfterName(s) = GZ
                   THEN FromLastDotAfterName(DropLast(s, 3)) \o GZ
                   ELSE FromLastDotAfterName(s)
        IN  /\ DispatchedOn(ext)
            /\ EndsWith(s, GZ) => \A r \in Readers : ~InLog(r)
            /\ FromLastDotAfterName(s) # <<>> => ~InLog("MolFromSmiles")
            /\ s = NaCl => result = Raise("KeyError", <<"_load_mol_rd">>)

\* A name of leading dots only, '.pdb' or 'C/.pdb', was parsed as SMILES.
C8_Witness ==
    /\ RdString
    /\ EndsWith(args.inp_molecule.str, PDB)
    /\ FromLastDot(args.inp_molecule.str) = PDB
    /\ InLog("MolFromSmiles")

MapCallDone == fn = "atom_map" /\ pc = "done"

AllZero(maps) == \A i \in 1..Len(maps) : maps[i] = 0

\* C9: is_mapped returns True exactly when every atom has a non-zero map
\* index and leaves the molecule as it was.  remove_map sets the map index
\* of every atom to 0 and changes nothing else: after it is_mapped returns
\* False on a molecule with an atom, and a second remove_map changes
\* nothing.
C9_MapHelpers ==
    MapCallDone =>
        /\ args.last = "is_mapped" =>
              /\ result.kind = "return"
              /\ result.value = (\A i \in 1..Len(before.maps) : before.maps[i] # 0)
              /\ molecule = before
        /\ args.last = "remove_map" =>
              /\ result.kind = "return"
              /\ Len(molecule.maps) = Len(before.maps)
              /\ AllZero(molecule.maps)
              /\ molecule.atoms = before.atoms
              /\ molecule.tk = before.tk
              /\ Len(molecule.maps) > 0 =>
                    is_mapped(molecule, has_rdkit, has_openeye)
                        = [kind |-> "return", exc |-> "", value |-> FALSE]
              /\ remove_map(molecule, has_rdkit, has_openeye).mol = molecule

\* C10: with a geometry, mol_from_json returns a molecule only if the
\* geometry holds exactly three coordinates per symbol; any other length
\* makes the call raise.
C10_GeometryLengthChecked ==
    (Built /\ "geometry" \in args.inp_molecule.keys /\ result.kind = "return") =>
        Len(args.inp_molecule.geometry) = 3 * Len(args.inp_molecule.symbols)

====
